---- MODULE Spec2Model ----
(***************************************************************************)
(* A model of src/lib/paper.js: the Paper compositor.  It keeps a map from *)
(* layer id to layer (paper[_layerMap]), an insertion counter              *)
(* (paper[_zOrder]), the cached dispatch order (paper[_layers]), routes    *)
(* host events through the ordered layers and preloads resources.          *)
(*                                                                         *)
(* JavaScript values are modelled as strings: layer ids, layer objects,    *)
(* undefined, null, true, false and the value inherited from               *)
(* Object.prototype by the plain object that serves as the map.  Sizes    *)
(* and event positions are integers; the numbers toGlobalPos and           *)
(* toLocalPos compute are binary floating-point values, rounded after      *)
(* every operation.                                                        *)
(***************************************************************************)
EXTENDS Integers, Sequences, FiniteSets

\* ------------------------------------------------------------------ bounds

\* The insertion counter paper[_zOrder] is unbounded in the code; operations
\* that would advance it past MaxOrder are not explored.
MaxOrder == 3

\* The zIndex arguments callers pass.
ZIndices == {0, 1, 2}

\* The handlers of one listener run make at most MaxNested calls on the paper.
MaxNested == 1

\* The container holds at most MaxListeners listeners of one event type.
MaxListeners == 2

\* ------------------------------------------------------------- JS values

Undefined == "undefined"
Null == "null"
JSTrue == "true"
JSFalse == "false"

\* The value every plain object inherits under the key "constructor".
ObjectCtor == "Object"

\* Keys that `{}` answers through its prototype chain.
ProtoKeys == {"constructor"}

\* Layer ids used as arguments.  No layer object has the id "constructor".
Ids == {"a", "b", "c", "constructor"}

\* Layer objects (instances of Layer) that callers may hold.
Instances == {"La1", "La2", "Lb1", "Lc1"}

\* layer.id
IdOf ==
  [l \in Instances |->
     CASE l \in {"La1", "La2"} -> "a"
       [] l = "Lb1" -> "b"
       [] OTHER -> "c"]

\* layer.handleEvent
HandleEventOf == [l \in Instances |-> l # "La2"]

\* typeof v === 'string'
IsString(v) == v \in Ids

\* JS truthiness of the values used here.
Truthy(v) == v \notin {Undefined, Null, JSFalse}

\* v.id for a non-string v; undefined for the inherited function.
IdProp(v) == IF v \in Instances THEN IdOf[v] ELSE Undefined

\* ------------------------------------------------------------------ state

VARIABLES
  layerMap,   \* paper[_layerMap]: own properties, in property order: <<[key, val]>>
  zOrder,     \* paper[_zOrder]: the insertion counter
  layers,     \* paper[_layers]: the cached order
  attr,       \* per layer object: its zIndex and zOrder fields
  pc,         \* the listener's position: "idle", "walk", "handler"
  walk,       \* the listener's local `layers`
  idx,        \* the listener's loop index i (0-based)
  terminated, \* evtArgs.terminated
  delivered,  \* layers whose dispatchEvent the current listener run invoked, in order
  nested,     \* calls the handlers of the current listener run have made
  issued,     \* every stamp a layer.connect call has been given
  call,       \* the last call made outside a listener run, and its outcome
  ppc,        \* preload's position: "idle", "loop", "await", "done", "failed"
  resources,  \* preload's arguments
  ri,         \* preload's loop index i (0-based)
  entry,      \* how many entries of the mapping resources[i] are loaded
  loading,    \* the load request preload awaits
  waited,     \* how long the awaited request has been outstanding
  ret,        \* preload's result array
  started,    \* the load requests the current preload call has made, in order
  settled,    \* how each of them ended so far: "resolved" or "rejected"
  container,  \* <<container.clientWidth, container.clientHeight>>
  viewport,   \* paper.viewport
  resolution, \* paper.resolution
  origin,     \* the point a chain of coordinate conversions started from
  point,      \* what the conversions made so far return for it
  trip,       \* the conversions made so far, in call order
  subs,       \* per event type, how many listeners the container holds
  queued,     \* listeners of the current host event that have yet to run
  received    \* layers the earlier listeners of the current host event invoked

vars == <<layerMap, zOrder, layers, attr, pc, walk, idx, terminated,
          delivered, nested, issued, call, ppc, resources, ri, entry, loading,
          waited, ret, started, settled, container, viewport, resolution,
          origin, point, trip, subs, queued, received>>

regVars == <<layerMap, zOrder, layers, attr, issued>>
walkVars == <<pc, walk, idx, terminated, delivered, queued, received>>
callVars == <<walkVars, nested>>
preVars == <<ppc, resources, ri, entry, loading, waited, ret, started, settled>>
sizeVars == <<container, viewport, resolution>>
coordVars == <<origin, point, trip>>
paperVars == <<regVars, callVars, call, sizeVars, coordVars, subs>>

\* What the layer calls and the listener leave alone.
restVars == <<preVars, sizeVars, coordVars, subs>>

\* --------------------------------------------------- the map as a JS object

OwnKeys(map) == {map[k].key : k \in 1..Len(map)}

OwnVal(map, key) == (CHOOSE k \in 1..Len(map) : map[k].key = key)

\* map[key]: the own property, else what the prototype chain answers.
Get(map, key) ==
  IF key \in OwnKeys(map) THEN map[OwnVal(map, key)].val
  ELSE IF key \in ProtoKeys THEN ObjectCtor
  ELSE Undefined

\* map[key] = val: an existing own property keeps its place.
Put(map, key, val) ==
  IF key \in OwnKeys(map)
    THEN [map EXCEPT ![OwnVal(map, key)] = [key |-> key, val |-> val]]
    ELSE Append(map, [key |-> key, val |-> val])

\* delete map[key]
Delete(map, key) ==
  IF key \in OwnKeys(map)
    THEN LET k == OwnVal(map, key)
         IN SubSeq(map, 1, k - 1) \o SubSeq(map, k + 1, Len(map))
    ELSE map

\* ------------------------------------------------------------------- layer

\* The fields of a layer that is connected to no paper.
Unset == -1
Detached == [zIndex |-> Unset, zOrder |-> Unset]

\* layer.connect(paper, zOrder, zIndex): stamps the layer.
Connect(at, layer, order, zIndex) ==
  [at EXCEPT ![layer] = [zIndex |-> zIndex, zOrder |-> order]]

\* layer.disconnect(paper)
Disconnect(at, layer) == [at EXCEPT ![layer] = Detached]

\* ---------------------------------------------------------------- sortLayer

\* A comparator that breaks ties oldest first.
CompareAscOrder(at, a, b) ==
  IF at[b].zIndex = at[a].zIndex
    THEN at[a].zOrder - at[b].zOrder
    ELSE at[b].zIndex - at[a].zIndex

\* The comparator handed to layers.sort: negative puts a before b.
Compare(at, a, b) ==
  IF at[b].zIndex = at[a].zIndex
    THEN at[b].zOrder - at[a].zOrder
    ELSE at[b].zIndex - at[a].zIndex

\* x inserted into the sorted s, after every element it does not precede.
InsertSorted(at, s, x) ==
  LET before == {k \in 1..Len(s) : Compare(at, x, s[k]) < 0}
      pos == IF before = {} THEN Len(s) + 1
             ELSE CHOOSE k \in before : \A j \in before : k <= j
  IN SubSeq(s, 1, pos - 1) \o <<x>> \o SubSeq(s, pos, Len(s))

RECURSIVE ArraySort(_, _)
ArraySort(at, s) ==
  IF s = <<>> THEN <<>>
  ELSE InsertSorted(at, ArraySort(at, SubSeq(s, 1, Len(s) - 1)), s[Len(s)])

\* The values of the map's own properties, in for-in order.
MapValues(map) == [k \in 1..Len(map) |-> map[k].val]

SortLayer(map, at) == ArraySort(at, MapValues(map))

\* ----------------------------------------------------------------- hasLayer

\* hasLayer(x) reads x.id of a non-string x: a TypeError when x is undefined.
HasLayerThrows(x) == ~IsString(x) /\ x \in {Undefined, Null}

\* The value hasLayer(x) returns when it does not throw:
\* layer && map[layerID] === layer.
HasLayer(map, x) ==
  LET layerID == IF IsString(x) THEN x ELSE IdProp(x)
      layer == IF IsString(x) THEN Get(map, x) ELSE x
  IN IF ~Truthy(layer) THEN layer
     ELSE IF Get(map, layerID) = layer THEN JSTrue ELSE JSFalse

\* -------------------------------------------------------------- removeLayer

\* The registry part of the state, as the operations below transform it.
Reg(map, order, ls, at) ==
  [layerMap |-> map, zOrder |-> order, layers |-> ls, attr |-> at]

CurReg == Reg(layerMap, zOrder, layers, attr)

RemoveLayerArg(r, x) == IF IsString(x) THEN Get(r.layerMap, x) ELSE x

RemoveLayerThrows(r, x) == HasLayerThrows(RemoveLayerArg(r, x))

\* A removeLayer that leaves the cached order as it was.
RemoveLayerNoSort(r, x) ==
  LET layerID == IF IsString(x) THEN x ELSE IdProp(x)
      layer == RemoveLayerArg(r, x)
  IN IF Truthy(HasLayer(r.layerMap, layer))
       THEN LET at == Disconnect(r.attr, layer)
                map == Delete(r.layerMap, layerID)
            IN [reg |-> Reg(map, r.zOrder, r.layers, at), out |-> layer]
       ELSE [reg |-> r, out |-> Null]

\* removeLayer(x) when it does not throw: the new registry and the value returned.
RemoveLayerOp(r, x) ==
  LET layerID == IF IsString(x) THEN x ELSE IdProp(x)
      layer == RemoveLayerArg(r, x)
  IN IF Truthy(HasLayer(r.layerMap, layer))
       THEN LET at == Disconnect(r.attr, layer)
                map == Delete(r.layerMap, layerID)
            IN [reg |-> Reg(map, r.zOrder, SortLayer(map, at), at), out |-> layer]
       ELSE [reg |-> r, out |-> Null]

\* -------------------------------------------------------------- appendLayer

\* An appendLayer without its guard.
AppendLayerNeverThrows(r, layer) == FALSE

\* appendLayer's guard: the id answers to something that is not this layer.
AppendLayerThrows(r, layer) ==
  /\ Truthy(HasLayer(r.layerMap, IdOf[layer]))
  /\ Get(r.layerMap, IdOf[layer]) # layer

\* An appendLayer that lets a layer it re-registers keep its old stamp.
AppendLayerKeepStamp(r, layer, zIndex) ==
  LET old == r.attr[layer].zOrder
      r1 == RemoveLayerOp(r, layer).reg
      map == Put(r1.layerMap, IdOf[layer], layer)
      at == Connect(r1.attr, layer, IF old = Unset THEN r1.zOrder ELSE old, zIndex)
  IN [reg |-> Reg(map, r1.zOrder + 1, SortLayer(map, at), at), out |-> layer]

\* An appendLayer that stamps a layer with the number of layers registered
\* before it.
AppendLayerStampBySize(r, layer, zIndex) ==
  LET r1 == RemoveLayerOp(r, layer).reg
      map == Put(r1.layerMap, IdOf[layer], layer)
      at == Connect(r1.attr, layer, Len(r1.layerMap), zIndex)
  IN [reg |-> Reg(map, r1.zOrder + 1, SortLayer(map, at), at), out |-> layer]

\* appendLayer(layer, zIndex) past its guard.
AppendLayerOp(r, layer, zIndex) ==
  LET r1 == RemoveLayerOp(r, layer).reg
      map == Put(r1.layerMap, IdOf[layer], layer)
      at == Connect(r1.attr, layer, r1.zOrder, zIndex)
  IN [reg |-> Reg(map, r1.zOrder + 1, SortLayer(map, at), at), out |-> layer]

\* ---------------------------------------------------------------- callers

\* Calls come from outside a listener run or from a layer's event handler.
CanCall == pc = "idle" \/ (pc = "handler" /\ nested < MaxNested)

Counted == nested' = IF pc = "handler" THEN nested + 1 ELSE nested

\* The record of a call: its argument, what the map answered for the id
\* before the call, and what the call returned or threw.
Called(op, arg, z, out) ==
  [op |-> op, arg |-> arg, z |-> z, out |-> out,
   pre |-> IF arg \in Ids THEN Get(layerMap, arg)
           ELSE IF arg \in Instances THEN Get(layerMap, IdOf[arg])
           ELSE Undefined]

\* The last call made from outside a listener run is kept; the calls of
\* handlers are not recorded.
Record(c) == call' = IF pc = "idle" THEN c ELSE call

SetReg(r) ==
  /\ layerMap' = r.layerMap
  /\ zOrder' = r.zOrder
  /\ layers' = r.layers
  /\ attr' = r.attr

\* paper.hasLayer(x)
HasLayerCall(x) ==
  /\ UNCHANGED restVars
  /\ CanCall
  /\ Record(Called("hasLayer", x, Unset, HasLayer(layerMap, x)))
  /\ Counted
  /\ UNCHANGED <<regVars, walkVars>>

\* paper.removeLayer(x)
RemoveLayer(x) ==
  /\ UNCHANGED restVars
  /\ CanCall
  /\ IF RemoveLayerThrows(CurReg, x)
       THEN /\ Record(Called("removeLayer", x, Unset, "TypeError"))
            /\ UNCHANGED regVars
       ELSE LET res == RemoveLayerOp(CurReg, x)
            IN /\ SetReg(res.reg)
               /\ UNCHANGED issued
               /\ Record(Called("removeLayer", x, Unset, res.out))
  /\ Counted
  /\ UNCHANGED walkVars

\* paper.appendLayer(layer, zIndex), the layer built by the caller.
AppendLayer(layer, zIndex) ==
  /\ UNCHANGED restVars
  /\ CanCall
  /\ IF AppendLayerThrows(CurReg, layer)
       THEN /\ Record(Called("appendLayer", layer, Unset, "Error"))
            /\ UNCHANGED regVars
       ELSE /\ zOrder < MaxOrder
            /\ LET res == AppendLayerOp(CurReg, layer, zIndex)
               IN /\ SetReg(res.reg)
                  /\ issued' = issued \cup {res.reg.attr[layer].zOrder}
                  /\ Record(Called("appendLayer", layer, Unset, res.out))
  /\ Counted
  /\ UNCHANGED walkVars

\* The layer objects that nothing refers to: `new Layer(id, opts)` yields one.
Referenced ==
  {layerMap[k].val : k \in 1..Len(layerMap)}
    \cup {walk[k] : k \in 1..Len(walk)} \cup {call.arg, call.out}

Fresh == Instances \ Referenced

\* paper.layer(id, opts): opts carries zIndex and handleEvent.
Layer(id, zIndex, handleEvent) ==
  /\ UNCHANGED restVars
  /\ CanCall
  /\ IF ~Truthy(HasLayer(layerMap, id))
       THEN \E new \in Fresh :
              /\ IdOf[new] = id
              /\ HandleEventOf[new] = handleEvent
              /\ ~AppendLayerThrows(CurReg, new)
              /\ zOrder < MaxOrder
              /\ LET res == AppendLayerOp(CurReg, new, zIndex)
                 IN /\ SetReg(res.reg)
                    /\ issued' = issued \cup {res.reg.attr[new].zOrder}
                    /\ Record(Called("layer", id, zIndex, Get(res.reg.layerMap, id)))
       ELSE /\ Record(Called("layer", id, zIndex, Get(layerMap, id)))
            /\ UNCHANGED regVars
  /\ Counted
  /\ UNCHANGED walkVars

\* ---------------------------------------------------------------- numbers

\* A JS number is a binary floating-point value m * 2^e whose significand m
\* has Precision bits (0, or 2^(Precision-1) <= m < 2^Precision); every
\* arithmetic result is rounded to the nearest such value, ties to even.
\* JS has 53 bits; the rounding is the same at every width.
Precision == 5

RECURSIVE Pow2(_)
Pow2(n) == IF n <= 0 THEN 1 ELSE 2 * Pow2(n - 1)

\* Infinity and NaN: what a division by zero or by a non-number gives.
NotFinite == [m |-> -1, e |-> 0]

\* The number nearest to (n / d) * 2^e, for n >= 0 and d > 0.
RECURSIVE RoundRat(_, _, _)
RoundRat(n, d, e) ==
  IF n = 0 THEN [m |-> 0, e |-> 0]
  ELSE IF n < d * Pow2(Precision - 1) THEN RoundRat(2 * n, d, e - 1)
  ELSE IF n >= d * Pow2(Precision) THEN RoundRat(n, 2 * d, e + 1)
  ELSE LET q == n \div d
           r == n % d
           m == IF 2 * r > d \/ (2 * r = d /\ q % 2 = 1) THEN q + 1 ELSE q
       IN IF m = Pow2(Precision)
            THEN [m |-> Pow2(Precision - 1), e |-> e + 1]
            ELSE [m |-> m, e |-> e]

\* The number an integer literal or an integer-valued property denotes.
Number(n) == RoundRat(n, 1, 0)

\* a * b
Times(a, b) ==
  IF a = NotFinite \/ b = NotFinite THEN NotFinite
  ELSE RoundRat(a.m * b.m, 1, a.e + b.e)

\* a / b
Over(a, b) ==
  IF a = NotFinite \/ b = NotFinite \/ b.m = 0 THEN NotFinite
  ELSE RoundRat(a.m, b.m, a.e - b.e)

\* ------------------------------------------------------------------ sizes

\* The string 'auto', as the one value that is no size.
Auto == 0

\* What the container reports as clientWidth and clientHeight.
ContainerSizes == {<<3, 4>>, <<4, 3>>}

\* (width, height) arguments: each axis a number or 'auto'.
SizeArgs == {<<Auto, Auto>>, <<Auto, 2>>, <<1, Auto>>, <<1, 2>>}

\* The z-indices of the layers the setters are called with: a tie and a
\* strict order.
SizeZIndices == {0, 1}

\* The container is laid out anew.
Resize(size) ==
  /\ pc = "idle"
  /\ size # container
  /\ container' = size
  /\ UNCHANGED <<regVars, callVars, call, preVars, coordVars, subs, viewport, resolution>>

\* layer.updateResolution() on the handling layers only.
UpdateResolutionHandling(ls) == SelectSeq(ls, LAMBDA l : HandleEventOf[l])

\* this[_layers].forEach(layer => layer.updateResolution()): the layers
\* notified, in call order.
UpdateResolution(ls) == ls

\* The record of a setter call: its arguments, the layers it notified and
\* the sizes a notified layer finds stored.
Sized(op, width, height, told, saw) ==
  [op |-> op, arg |-> <<width, height>>, out |-> "this", told |-> told,
   saw |-> saw]

\* paper.setViewport(width, height)
SetViewport(width, height) ==
  /\ pc = "idle"
  /\ LET w == IF width = Auto THEN container[1] ELSE width
         h == IF height = Auto THEN container[2] ELSE height
     IN viewport' = <<w, h>>
  /\ call' = Sized("setViewport", width, height, UpdateResolution(layers),
                   <<viewport', resolution>>)
  /\ UNCHANGED <<regVars, callVars, preVars, coordVars, subs, container, resolution>>

\* paper.setResolution(width, height)
SetResolution(width, height) ==
  /\ pc = "idle"
  /\ resolution' = <<width, height>>
  /\ call' = Sized("setResolution", width, height, UpdateResolution(layers),
                   <<viewport, resolution'>>)
  /\ UNCHANGED <<regVars, callVars, preVars, coordVars, subs, container, viewport>>

\* ------------------------------------------------------------ coordinates

\* A stored size as a number; 'auto' is not one.
SizeNumber(v) == IF v = Auto THEN NotFinite ELSE Number(v)

\* paper.toGlobalPos(x, y)
ToGlobalPos(x, y) ==
  <<Over(Times(x, SizeNumber(viewport[1])), SizeNumber(resolution[1])),
    Over(Times(y, SizeNumber(viewport[2])), SizeNumber(resolution[2]))>>

\* A conversion that scales by viewport / resolution, as toGlobalPos does.
ToLocalPosAsGlobal(x, y) == ToGlobalPos(x, y)

\* paper.toLocalPos(x, y)
ToLocalPos(x, y) ==
  <<Over(Times(x, SizeNumber(resolution[1])), SizeNumber(viewport[1])),
    Over(Times(y, SizeNumber(resolution[2])), SizeNumber(viewport[2]))>>

\* Positive viewport and resolution axes, and point coordinates.
CoordSizes == {1, 3, 5}
CoordPoints == {2, 5, 7}

\* point = paper.toGlobalPos(...point)
CallToGlobalPos ==
  /\ Len(trip) < 2
  /\ point' = ToGlobalPos(point[1], point[2])
  /\ trip' = Append(trip, "toGlobalPos")
  /\ UNCHANGED <<regVars, callVars, call, preVars, sizeVars, subs, origin>>

\* point = paper.toLocalPos(...point)
CallToLocalPos ==
  /\ Len(trip) < 2
  /\ point' = ToLocalPos(point[1], point[2])
  /\ trip' = Append(trip, "toLocalPos")
  /\ UNCHANGED <<regVars, callVars, call, preVars, sizeVars, subs, origin>>

\* ---------------------------------------------------------- delegateEvent

\* The types the constructor subscribes, in its order.
DefaultEvents ==
  <<"mousedown", "mouseup", "mousemove", "touchstart", "touchend",
    "touchmove", "click", "dblclick">>

\* The event types a container is asked to listen for.
EventTypes == {DefaultEvents[k] : k \in 1..Len(DefaultEvents)} \cup {"wheel"}

\* A type given as a string stands for {type, passive: true}.
EventSpec(type) == [type |-> type, passive |-> TRUE]

\* events.forEach(... container.addEventListener(type, listener, {passive})):
\* every event given adds a listener of its own.
RECURSIVE AddListeners(_, _)
AddListeners(s, events) ==
  IF events = <<>> THEN s
  ELSE AddListeners([s EXCEPT ![Head(events).type] = @ + 1], Tail(events))

\* delegateEvent arguments: a default type, a new type, a type named twice.
DelegateArgs ==
  { <<EventSpec("click")>>,
    <<[type |-> "wheel", passive |-> FALSE]>>,
    <<EventSpec("wheel"), EventSpec("wheel")>> }

\* paper.delegateEvent(...events)
DelegateEvent(events) ==
  /\ pc = "idle"
  /\ LET s == AddListeners(subs, events)
     IN /\ \A t \in EventTypes : s[t] <= MaxListeners
        /\ subs' = s
  /\ call' = [op |-> "delegateEvent", arg |-> Undefined, events |-> events,
              out |-> Undefined]
  /\ UNCHANGED <<regVars, callVars, preVars, sizeVars, coordVars>>

\* ---------------------------------------------------------------- listener

\* A coordinate property the event does not have (null or undefined).
Missing == -1

\* e.target.getBoundingClientRect()
TargetRect == [left |-> 1, top |-> 1]

\* A host event: its layerX/layerY, offsetX/offsetY and changedTouches; an
\* absent touch list and an empty one are both <<>>.
HostEvent(layerX, layerY, offsetX, offsetY, changedTouches) ==
  [layerX |-> layerX, layerY |-> layerY, offsetX |-> offsetX,
   offsetY |-> offsetY, changedTouches |-> changedTouches]

Touch(clientX, clientY) == [clientX |-> clientX, clientY |-> clientY]

\* A mouse event and an event that carries no position at all.
PlainEvents ==
  { HostEvent(2, 3, 4, 5, <<>>),
    HostEvent(Missing, Missing, Missing, Missing, <<>>) }

\* Also: offsetX/offsetY only, a touch, and layerX without any y.
HostEvents ==
  PlainEvents \cup
  { HostEvent(Missing, Missing, 4, 5, <<>>),
    HostEvent(Missing, Missing, Missing, Missing, <<Touch(3, 4)>>),
    HostEvent(2, Missing, Missing, Missing, <<>>) }

\* The types of the host events emitted.
HostTypes == {"click", "wheel"}

\* A resolution that falls back to (0, 0) where the event has no position.
ResolvePointerDefaulting(e) ==
  LET x == IF e.layerX # Missing THEN e.layerX ELSE e.offsetX
      y == IF e.layerY # Missing THEN e.layerY ELSE e.offsetY
  IN IF x = Missing \/ y = Missing
       THEN IF e.changedTouches = <<>>
              THEN [threw |-> Undefined, at |-> <<0, 0>>]
              ELSE [threw |-> Undefined,
                    at |-> <<e.changedTouches[1].clientX - TargetRect.left,
                             e.changedTouches[1].clientY - TargetRect.top>>]
       ELSE [threw |-> Undefined, at |-> <<x, y>>]

\* originalX, originalY as the listener works them out; reading
\* e.changedTouches[0] of an event without touches throws a TypeError.
ResolvePointer(e) ==
  LET originalX == IF e.layerX # Missing THEN e.layerX ELSE e.offsetX
      originalY == IF e.layerY # Missing THEN e.layerY ELSE e.offsetY
  IN IF originalX = Missing \/ originalY = Missing
       THEN IF e.changedTouches = <<>>
              THEN [threw |-> "TypeError", at |-> <<>>]
              ELSE [threw |-> Undefined,
                    at |-> <<e.changedTouches[1].clientX - TargetRect.left,
                             e.changedTouches[1].clientY - TargetRect.top>>]
       ELSE [threw |-> Undefined, at |-> <<originalX, originalY>>]

\* evtArgs once layerX, layerY, originalX, originalY are assigned to it.
EvtArgs(type, at) ==
  LET local == ToLocalPos(Number(at[1]), Number(at[2]))
  IN [type |-> type, layerX |-> local[1], layerY |-> local[2],
      originalX |-> at[1], originalY |-> at[2]]

\* The record of a host event: its type, the event, what the listener threw
\* and the evtArgs it went on to dispatch.
Heard(type, e, threw, evt) ==
  [op |-> "dispatch", arg |-> Undefined, z |-> Unset, out |-> threw,
   pre |-> Undefined, type |-> type, event |-> e, evt |-> evt]

\* The container emits a host event: the first listener of its type starts.
Dispatch(type, e) ==
  /\ UNCHANGED restVars
  /\ pc = "idle"
  /\ subs[type] > 0
  /\ LET r == ResolvePointer(e)
     IN IF r.threw = "TypeError"
          THEN /\ Record(Heard(type, e, r.threw, <<>>))
               /\ UNCHANGED callVars
          ELSE /\ Record(Heard(type, e, r.threw, <<EvtArgs(type, r.at)>>))
               /\ pc' = "walk"
               /\ walk' = layers
               /\ idx' = 0
               /\ terminated' = FALSE
               /\ delivered' = <<>>
               /\ nested' = 0
               /\ queued' = subs[type] - 1
               /\ received' = <<>>
  /\ UNCHANGED regVars

\* A loop that does not look at the flag.
ShouldDispatchAll(layer) == TRUE

\* if(layer.handleEvent)
ShouldDispatch(layer) == HandleEventOf[layer]

\* A loop that walks the array from its end.
LayerFromEnd(ls, i) == ls[Len(ls) - i]

\* layers[i]
LayerAt(ls, i) == ls[i + 1]

\* One turn of the loop over the listener's `layers`. When the loop ends the
\* listener's locals end with it, and the next listener of the same host
\* event starts, if the container holds another.
WalkStep ==
  /\ UNCHANGED restVars
  /\ pc = "walk"
  /\ IF idx < Len(walk)
       THEN IF ShouldDispatch(LayerAt(walk, idx))
              THEN /\ delivered' = Append(delivered, LayerAt(walk, idx))
                   /\ pc' = "handler"
                   /\ UNCHANGED <<idx, walk, terminated, nested, queued, received>>
              ELSE /\ idx' = idx + 1
                   /\ UNCHANGED <<pc, delivered, walk, terminated, nested,
                                  queued, received>>
       ELSE /\ idx' = 0
            /\ terminated' = FALSE
            /\ delivered' = <<>>
            /\ nested' = 0
            /\ IF queued > 0
                 THEN /\ pc' = "walk"
                      /\ walk' = layers
                      /\ queued' = queued - 1
                      /\ received' = received \o delivered
                 ELSE /\ pc' = "idle"
                      /\ walk' = <<>>
                      /\ queued' = 0
                      /\ received' = <<>>
  /\ UNCHANGED <<regVars, call>>

\* evtArgs.stopDispatch(), called by the running handler.
StopDispatch ==
  /\ UNCHANGED restVars
  /\ pc = "handler"
  /\ ~terminated
  /\ terminated' = TRUE
  /\ UNCHANGED <<regVars, pc, walk, idx, delivered, nested, call, queued,
                 received>>

\* layer.dispatchEvent returns to the loop.
HandlerReturn ==
  /\ UNCHANGED restVars
  /\ pc = "handler"
  /\ pc' = "walk"
  /\ idx' = idx + 1
  /\ UNCHANGED <<regVars, walk, terminated, delivered, nested, call, queued,
                 received>>

\* ------------------------------------------------------------------ preload

\* preload is called with at most MaxRes resource specs.
MaxRes == 2

\* A load stays outstanding for at most MaxLatency steps before it settles.
MaxLatency == 1

Item(id, src) == [id |-> id, src |-> src]

\* A resource spec: a source string, an array of frame sources, or an object
\* mapping ids to sources (its entries in Object.entries order).
StringSpec(src) == [kind |-> "string", entries |-> <<Item("", src)>>]
ArraySpec(srcs) ==
  [kind |-> "array", entries |-> [k \in 1..Len(srcs) |-> Item("", srcs[k])]]
ObjectSpec(entries) == [kind |-> "object", entries |-> entries]

ResourceSpecs ==
  { StringSpec("a.png"),
    ArraySpec(<<"f1.png", "f2.png">>),
    ObjectSpec(<<>>),
    ObjectSpec(<<Item("icon", "i.png")>>),
    ObjectSpec(<<Item("x", "x.png"), Item("y", "y.png")>>) }

RECURSIVE SeqsUpTo(_, _)
SeqsUpTo(S, n) ==
  IF n = 0 THEN {<<>>}
  ELSE LET shorter == SeqsUpTo(S, n - 1)
       IN shorter \cup {Append(q, x) : q \in {t \in shorter : Len(t) = n - 1}, x \in S}

NoRequest == [fn |-> "none", args |-> <<>>]

\* Resource.loadTexture(src), Resource.loadFrames(...srcs) and
\* Resource.loadTexture({id, src}) as requests.
TextureRequest(item) == [fn |-> "loadTexture", args |-> <<item>>]
FramesRequest(items) == [fn |-> "loadFrames", args |-> items]

\* What the promise of a request resolves to.
Loaded(request) == [loaded |-> request.fn, from |-> request.args]

\* The request the loop body makes for resources[i], past `done` entries.
RequestFor(res, done) ==
  CASE res.kind = "string" -> TextureRequest(res.entries[1])
    [] res.kind = "array" -> FramesRequest(res.entries)
    [] OTHER -> TextureRequest(res.entries[done + 1])

\* A push that puts the newest result first.
PushFront(array, value) == <<value>> \o array

\* ret.push(value)
Push(array, value) == Append(array, value)

\* An expression that goes on without awaiting the promise.
NoAwait(promise) == "loop"

\* await promise: preload is suspended until the promise settles.
Await(promise) == "await"

\* paper.preload(...rs)
Preload(rs) ==
  /\ ppc \in {"idle", "done", "failed"}
  /\ ppc' = "loop"
  /\ resources' = rs
  /\ ri' = 0
  /\ entry' = 0
  /\ loading' = NoRequest
  /\ waited' = 0
  /\ ret' = <<>>
  /\ started' = <<>>
  /\ settled' = <<>>
  /\ UNCHANGED paperVars

\* The loop up to its next await, or to its return.
PreloadStep ==
  /\ ppc = "loop"
  /\ IF ri < Len(resources)
       THEN LET res == resources[ri + 1]
            IN IF res.kind = "object" /\ entry >= Len(res.entries)
                 THEN /\ ri' = ri + 1
                      /\ entry' = 0
                      /\ UNCHANGED <<ppc, loading, started>>
                 ELSE /\ loading' = RequestFor(res, entry)
                      /\ started' = Append(started, loading')
                      /\ ppc' = Await(loading')
                      /\ UNCHANGED <<ri, entry>>
       ELSE /\ ppc' = "done"
            /\ UNCHANGED <<ri, entry, loading, started>>
  /\ UNCHANGED <<paperVars, resources, waited, ret, settled>>

\* The awaited load is still outstanding.
LoadWait ==
  /\ ppc = "await"
  /\ waited < MaxLatency
  /\ waited' = waited + 1
  /\ UNCHANGED <<paperVars, ppc, resources, ri, entry, loading, ret, started, settled>>

\* The awaited load resolves: its result is pushed.
LoadResolve ==
  /\ ppc = "await"
  /\ ret' = Push(ret, Loaded(loading))
  /\ IF resources[ri + 1].kind = "object"
       THEN entry' = entry + 1 /\ UNCHANGED ri
       ELSE ri' = ri + 1 /\ UNCHANGED entry
  /\ loading' = NoRequest
  /\ waited' = 0
  /\ settled' = Append(settled, "resolved")
  /\ ppc' = "loop"
  /\ UNCHANGED <<paperVars, resources, started>>

\* A failed load that is skipped: the loop goes on with the next item.
LoadRejectSkipped ==
  /\ ppc = "await"
  /\ ppc' = "loop"
  /\ IF resources[ri + 1].kind = "object"
       THEN entry' = entry + 1 /\ UNCHANGED ri
       ELSE ri' = ri + 1 /\ UNCHANGED entry
  /\ loading' = NoRequest
  /\ waited' = 0
  /\ settled' = Append(settled, "rejected")
  /\ UNCHANGED <<paperVars, resources, ret, started>>

\* The awaited load fails: the await throws and preload rejects.
LoadReject ==
  /\ ppc = "await"
  /\ ppc' = "failed"
  /\ loading' = NoRequest
  /\ waited' = 0
  /\ settled' = Append(settled, "rejected")
  /\ UNCHANGED <<paperVars, resources, ri, entry, ret, started>>

\* ------------------------------------------------------------ specification

Init ==
  /\ layerMap = <<>>
  /\ zOrder = 0
  /\ layers = <<>>
  /\ attr = [l \in Instances |-> Detached]
  /\ pc = "idle"
  /\ walk = <<>>
  /\ idx = 0
  /\ terminated = FALSE
  /\ delivered = <<>>
  /\ nested = 0
  /\ issued = {}
  /\ call = [op |-> "new", arg |-> Undefined, z |-> Unset, out |-> Undefined,
             pre |-> Undefined]
  /\ ppc = "idle"
  /\ resources = <<>>
  /\ ri = 0
  /\ entry = 0
  /\ loading = NoRequest
  /\ waited = 0
  /\ ret = <<>>
  /\ started = <<>>
  /\ settled = <<>>
  /\ container = <<3, 4>>
  /\ viewport = <<container[1], container[2]>>
  /\ resolution = <<viewport[1], viewport[2]>>
  /\ origin = <<Number(0), Number(0)>>
  /\ point = origin
  /\ trip = <<>>
  /\ subs = AddListeners([t \in EventTypes |-> 0],
                         [k \in 1..Len(DefaultEvents) |-> EventSpec(DefaultEvents[k])])
  /\ queued = 0
  /\ received = <<>>

Next ==
  \/ \E x \in Ids \cup Instances : HasLayerCall(x)
  \/ \E x \in Ids \cup Instances : RemoveLayer(x)
  \/ \E l \in Instances, z \in ZIndices : AppendLayer(l, z)
  \/ \E id \in Ids, z \in ZIndices, h \in BOOLEAN : Layer(id, z, h)
  \/ \E type \in HostTypes, e \in PlainEvents : Dispatch(type, e)
  \/ WalkStep
  \/ StopDispatch
  \/ HandlerReturn

Spec == Init /\ [][Next]_vars

\* The layer calls alone, no listener running.
NextRegistry ==
  \/ \E x \in Ids \cup Instances : HasLayerCall(x)
  \/ \E x \in Ids \cup Instances : RemoveLayer(x)
  \/ \E l \in Instances, z \in ZIndices : AppendLayer(l, z)
  \/ \E id \in Ids, z \in ZIndices, h \in BOOLEAN : Layer(id, z, h)

SpecRegistry == Init /\ [][NextRegistry]_vars

\* The setters, over registries built and taken apart by the layer calls.
NextSize ==
  \/ \E l \in Instances, z \in SizeZIndices : AppendLayer(l, z)
  \/ \E l \in Instances : RemoveLayer(l)
  \/ \E size \in ContainerSizes : Resize(size)
  \/ \E a \in SizeArgs : SetViewport(a[1], a[2])
  \/ \E a \in SizeArgs : SetResolution(a[1], a[2])

SpecSize == Init /\ [][NextSize]_vars

\* A paper whose sizes were set to positive numbers, and a point.
InitCoords ==
  /\ layerMap = <<>>
  /\ zOrder = 0
  /\ layers = <<>>
  /\ attr = [l \in Instances |-> Detached]
  /\ pc = "idle"
  /\ walk = <<>>
  /\ idx = 0
  /\ terminated = FALSE
  /\ delivered = <<>>
  /\ nested = 0
  /\ issued = {}
  /\ ppc = "idle"
  /\ resources = <<>>
  /\ ri = 0
  /\ entry = 0
  /\ loading = NoRequest
  /\ waited = 0
  /\ ret = <<>>
  /\ started = <<>>
  /\ settled = <<>>
  /\ container = <<3, 4>>
  /\ \E vw \in CoordSizes, vh \in CoordSizes : viewport = <<vw, vh>>
  /\ \E rw \in CoordSizes, rh \in CoordSizes :
       /\ resolution = <<rw, rh>>
       /\ call = Sized("setResolution", rw, rh, <<>>, <<viewport, resolution>>)
  /\ \E x \in CoordPoints, y \in CoordPoints : origin = <<Number(x), Number(y)>>
  /\ point = origin
  /\ trip = <<>>
  /\ subs = AddListeners([t \in EventTypes |-> 0],
                         [k \in 1..Len(DefaultEvents) |-> EventSpec(DefaultEvents[k])])
  /\ queued = 0
  /\ received = <<>>

\* The two conversions alone, with viewport and resolution left as they are.
NextCoords ==
  \/ CallToGlobalPos
  \/ CallToLocalPos

SpecCoords == InitCoords /\ [][NextCoords]_vars

\* Host events of every shape, heard by the listeners of the constructor.
NextPointer ==
  \/ \E l \in Instances, z \in SizeZIndices : AppendLayer(l, z)
  \/ \E type \in HostTypes, e \in HostEvents : Dispatch(type, e)
  \/ WalkStep
  \/ HandlerReturn

SpecPointer == Init /\ [][NextPointer]_vars

\* Host events heard by the listeners delegateEvent has added.
NextEvents ==
  \/ \E l \in Instances, z \in SizeZIndices : AppendLayer(l, z)
  \/ \E events \in DelegateArgs : DelegateEvent(events)
  \/ \E type \in HostTypes, e \in PlainEvents : Dispatch(type, e)
  \/ WalkStep
  \/ HandlerReturn

SpecEvents == Init /\ [][NextEvents]_vars

\* preload alone.
NextPreload ==
  \/ \E rs \in SeqsUpTo(ResourceSpecs, MaxRes) : Preload(rs)
  \/ PreloadStep
  \/ LoadWait
  \/ LoadResolve
  \/ LoadReject

SpecPreload == Init /\ [][NextPreload]_vars

\* ------------------------------------------------------------------ claims

\* The id is an own key of the map: a layer is registered under it.
Registered(id) == id \in OwnKeys(layerMap)

\* The layer registered under the id.
Bound(id) == layerMap[OwnVal(layerMap, id)].val

\* The id a hasLayer/removeLayer argument names.
ArgId(x) == IF IsString(x) THEN x ELSE IdOf[x]

\* The argument names a registered layer: its id is registered and, for a
\* handle, bound to that very layer.
ArgRegistered(x) ==
  /\ Registered(ArgId(x))
  /\ x \in Instances => Bound(ArgId(x)) = x

\* Position of a layer in the cached order.
Pos(ls, l) == CHOOSE k \in 1..Len(ls) : ls[k] = l

\* The (id, layer) bindings of the map.
Bindings(map) == {<<map[k].key, map[k].val>> : k \in 1..Len(map)}

\* C1: once a handler has called stopDispatch() on the event context, no
\* further layer has its dispatchEvent invoked for that event: dispatchEvent
\* is only ever invoked while the termination flag is not set.
C1_EarlyTermination ==
  [][Len(delivered') > Len(delivered) => ~terminated]_vars

\* C2: the cached order has zIndex non-increasing, and among adjacent layers
\* of equal zIndex the stamp zOrder non-increasing.
C2_SortCorrect ==
  \A k \in 1..(Len(layers) - 1) :
    /\ attr[layers[k]].zIndex >= attr[layers[k + 1]].zIndex
    /\ attr[layers[k]].zIndex = attr[layers[k + 1]].zIndex
         => attr[layers[k]].zOrder >= attr[layers[k + 1]].zOrder

\* Three layers in the cache, two of equal zIndex, the first registration
\* not first in the order.
C2_Witness ==
  /\ Len(layers) = 3
  /\ \E k \in 1..2 : attr[layers[k]].zIndex = attr[layers[k + 1]].zIndex
  /\ \E k \in 1..2 : attr[layers[k]].zIndex > attr[layers[k + 1]].zIndex
  /\ attr[layers[1]].zOrder > attr[layers[3]].zOrder

\* C3: the cached order holds exactly the layers bound in the map, each once.
C3_CacheFresh ==
  /\ Len(layers) = Len(layerMap)
  /\ {layers[k] : k \in 1..Len(layers)} = {layerMap[k].val : k \in 1..Len(layerMap)}
  /\ Cardinality({layers[k] : k \in 1..Len(layers)}) = Len(layers)

\* A removal has just returned a layer and others remain registered.
C3_Witness ==
  /\ call.op = "removeLayer"
  /\ call.out \in Instances
  /\ Len(layerMap) = 2

\* The layers of the listener's list that the loop has reached so far.
Reached == SubSeq(walk, 1, IF pc = "handler" THEN idx + 1 ELSE idx)

HandlesEvents(l) == HandleEventOf[l]

\* C4: a layer whose handleEvent flag is false never has dispatchEvent
\* invoked, and it consumes nothing: the layers invoked so far are exactly
\* the event-handling layers the loop has reached, in order.
C4_CapabilityFiltering ==
  /\ \A k \in 1..Len(delivered) : HandleEventOf[delivered[k]]
  /\ delivered = SelectSeq(Reached, HandlesEvents)

\* The loop has finished over a list in which a layer without the flag
\* stands above one with it, and the lower one was invoked.
C4_Witness ==
  /\ pc = "walk"
  /\ idx = Len(walk)
  /\ \E j, k \in 1..Len(walk) :
       /\ j < k
       /\ ~HandleEventOf[walk[j]]
       /\ HandleEventOf[walk[k]]
       /\ \E d \in 1..Len(delivered) : delivered[d] = walk[k]

\* C5: removeLayer of an id or handle that is not registered raises no
\* error, returns null and leaves map, cache and counter unchanged.
C5_NotFoundNonFatal ==
  [][(call'.op = "removeLayer" /\ ~ArgRegistered(call'.arg))
       => (call'.out = Null /\ UNCHANGED regVars)]_vars

\* C6: appendLayer of a layer whose id is bound to a different layer fails
\* with the duplicate-id error and changes nothing.
C6_DuplicateRejected ==
  [][(/\ call'.op = "appendLayer"
      /\ Registered(IdOf[call'.arg])
      /\ Bound(IdOf[call'.arg]) # call'.arg)
       => (call'.out = "Error" /\ UNCHANGED regVars)]_vars

\* A rejected appendLayer, the id still bound to the other layer.
C6_Witness ==
  /\ call.op = "appendLayer"
  /\ call.out = "Error"
  /\ Registered(IdOf[call.arg])
  /\ Bound(IdOf[call.arg]) \in Instances \ {call.arg}

\* C7: appendLayer of a layer already registered under its id succeeds,
\* leaves the bindings unchanged, and gives the layer a stamp greater than
\* every stamp issued before, so it is first among the layers of its zIndex.
C7_ReAddRefreshesStamp ==
  [][(/\ call'.op = "appendLayer"
      /\ Registered(IdOf[call'.arg])
      /\ Bound(IdOf[call'.arg]) = call'.arg)
       => LET l == call'.arg
          IN /\ call'.out = l
             /\ Bindings(layerMap') = Bindings(layerMap)
             /\ Len(layerMap') = Len(layerMap)
             /\ \A st \in issued : st < attr'[l].zOrder
             /\ \A k \in 1..Len(layers') :
                  attr'[layers'[k]].zIndex = attr'[l].zIndex
                    => Pos(layers', l) <= k]_vars

\* A registered layer was appended again and now stands before an older
\* layer of the same zIndex that was registered after it.
C7_Witness ==
  /\ call.op = "appendLayer"
  /\ call.pre = call.arg
  /\ call.out = call.arg
  /\ Len(layers) >= 2
  /\ layers[1] = call.arg
  /\ attr[layers[2]].zIndex = attr[layers[1]].zIndex
  /\ attr[layers[2]].zOrder > 0

\* C8: hasLayer is true exactly when the id is registered and, for a handle,
\* bound to that very layer; otherwise its result is falsy.
C8_HasLayerExact ==
  call.op = "hasLayer"
    => /\ ArgRegistered(call.arg) => call.out = JSTrue
       /\ ~ArgRegistered(call.arg) => ~Truthy(call.out)

\* C9: layer(id, options) returns the registered layer and changes nothing,
\* or else binds the id to one new layer of the requested zIndex, present in
\* the cached order, and returns it.
C9_GetOrCreate ==
  [][call'.op = "layer"
       => LET id == call'.arg
          IN IF Registered(id)
               THEN call'.out = Bound(id) /\ UNCHANGED regVars
               ELSE /\ call'.out \in Instances
                    /\ <<id, call'.out>> \in Bindings(layerMap')
                    /\ Bindings(layerMap') = Bindings(layerMap) \cup {<<id, call'.out>>}
                    /\ Len(layerMap') = Len(layerMap) + 1
                    /\ attr'[call'.out].zIndex = call'.z
                    /\ \E k \in 1..Len(layers') : layers'[k] = call'.out]_vars

\* The results of one resource spec, in the order its loads are made.
ResultsOf(res) ==
  IF res.kind = "object"
    THEN [k \in 1..Len(res.entries) |-> Loaded(TextureRequest(res.entries[k]))]
    ELSE <<Loaded(RequestFor(res, 0))>>

RECURSIVE Flattened(_)
Flattened(rs) ==
  IF rs = <<>> THEN <<>>
  ELSE Flattened(SubSeq(rs, 1, Len(rs) - 1)) \o ResultsOf(rs[Len(rs)])

\* C10 as stated: preload returns one result per input, the i-th element
\* being the result of the i-th input.
C10_OneResultPerInput ==
  ppc = "done"
    => /\ Len(ret) = Len(resources)
       /\ \A k \in 1..Len(resources) :
            \E r \in 1..Len(ResultsOf(resources[k])) :
              ret[k] = ResultsOf(resources[k])[r]

\* C10 amended: preload returns the results of its inputs concatenated in
\* input order, one for a string, one for an array and one per entry (in
\* entry order) for a mapping, whatever the latencies; the i-th element is
\* the result of the i-th input when every mapping has exactly one entry.
C10_ResultsInInputOrder ==
  ppc = "done"
    => /\ ret = Flattened(resources)
       /\ (\A k \in 1..Len(resources) : Len(ResultsOf(resources[k])) = 1)
            => /\ Len(ret) = Len(resources)
               /\ \A k \in 1..Len(resources) : ret[k] = ResultsOf(resources[k])[1]

\* preload has returned for a two-entry mapping followed by a string.
C10_Witness ==
  /\ ppc = "done"
  /\ Len(resources) = 2
  /\ resources[1].kind = "object"
  /\ Len(resources[1].entries) = 2
  /\ resources[2].kind = "string"
  /\ Len(ret) = 3

\* The load requests of one resource spec, in input order.
RequestsOf(res) ==
  IF res.kind = "object"
    THEN [k \in 1..Len(res.entries) |-> RequestFor(res, k - 1)]
    ELSE <<RequestFor(res, 0)>>

RECURSIVE AllRequests(_)
AllRequests(rs) ==
  IF rs = <<>> THEN <<>>
  ELSE AllRequests(SubSeq(rs, 1, Len(rs) - 1)) \o RequestsOf(rs[Len(rs)])

\* The load requests made and not settled yet.
Outstanding == Len(started) - Len(settled)

\* C11: preload loads strictly one after another: at most one load request
\* is outstanding at any time, the requests are made in input order, and a
\* request is made only after every earlier one has resolved.
C11_StrictlySequential ==
  /\ Outstanding \in {0, 1}
  /\ Outstanding = 1 <=> ppc = "await"
  /\ Len(started) <= Len(AllRequests(resources))
  /\ started = SubSeq(AllRequests(resources), 1, Len(started))
  /\ \A k \in 1..(Len(started) - 1) :
       k <= Len(settled) /\ settled[k] = "resolved"

\* The second load of a two-entry mapping is outstanding, the first resolved.
C11_Witness ==
  /\ Len(resources) = 2
  /\ resources[1].kind = "object"
  /\ Len(resources[1].entries) = 2
  /\ Len(started) = 2
  /\ settled = <<"resolved">>
  /\ waited = MaxLatency

\* C12: preload stops at the first failure: the call fails when a load is
\* rejected, the rejected load is the last one the call ever makes, and a
\* call that returns a result sequence has had every load resolved.
C12_StopsAtFirstFailure ==
  /\ \A k \in 1..Len(settled) :
       settled[k] = "rejected" => (k = Len(started) /\ ppc = "failed")
  /\ ppc = "failed"
       => /\ settled # <<>>
          /\ settled[Len(settled)] = "rejected"
          /\ loading = NoRequest
  /\ ppc = "done"
       => /\ Len(settled) = Len(AllRequests(resources))
          /\ \A k \in 1..Len(settled) : settled[k] = "resolved"

\* The first of three loads was resolved, the second rejected, and the call
\* has failed with the third never requested.
C12_Witness ==
  /\ ppc = "failed"
  /\ Len(AllRequests(resources)) = 3
  /\ settled = <<"resolved", "rejected">>
  /\ Len(started) = 2
  /\ Len(ret) = 1

\* The layer objects the map holds.
RegisteredLayers == {layerMap[k].val : k \in 1..Len(layerMap)}

\* The step is a call of one of the two setters.
SetterCall == call'.op \in {"setViewport", "setResolution"} /\ call' # call

\* C13: a setViewport or setResolution call calls updateResolution on every
\* registered layer exactly once and on no other layer, with the new size
\* already stored; it changes neither the registry nor the cached order;
\* setViewport leaves the resolution and setResolution the viewport as it was.
C13_SetterNotifiesAll ==
  [][SetterCall
       => /\ {call'.told[k] : k \in 1..Len(call'.told)} = RegisteredLayers
          /\ Len(call'.told) = Cardinality(RegisteredLayers)
          /\ call'.saw = <<viewport', resolution'>>
          /\ UNCHANGED regVars
          /\ call'.op = "setViewport" => resolution' = resolution
          /\ call'.op = "setResolution" => viewport' = viewport]_vars

\* setViewport changed the viewport with three layers registered, one of
\* them without handleEvent, after another layer had been removed.
C13_Witness ==
  /\ call.op = "setViewport"
  /\ Len(call.told) = 2
  /\ \E k \in 1..2 : call.told[k] = "La2"
  /\ attr["Lb1"].zOrder = Unset
  /\ zOrder = 3
  /\ viewport # <<container[1], container[2]>>

\* What an axis holds after a setter call given v for it.
StoredFor(v, axis) == IF v = Auto THEN container[axis] ELSE v

\* C14 as stated: after a setViewport or setResolution call each axis given
\* 'auto' holds the container's size and each axis given a number holds
\* that number, so both stored sizes are pairs of numbers.
C14_SentinelResolved ==
  [][SetterCall
       => LET stored == IF call'.op = "setViewport" THEN viewport'
                        ELSE resolution'
          IN /\ \A axis \in 1..2 :
                  stored[axis] = StoredFor(call'.arg[axis], axis)
             /\ \A axis \in 1..2 :
                  viewport'[axis] # Auto /\ resolution'[axis] # Auto]_vars

\* The conversions made are a round trip.
RoundTrip ==
  trip \in {<<"toGlobalPos", "toLocalPos">>, <<"toLocalPos", "toGlobalPos">>}

\* C16 as stated: toLocalPos(toGlobalPos(x, y)) equals (x, y), and
\* toGlobalPos(toLocalPos(x, y)) equals (x, y).
C16_RoundTripExact == RoundTrip => point = origin

\* The value of a finite number in units of 2^e.
InUnits(a, e) == a.m * Pow2(a.e - e)

\* Number a is b up to the four roundings of a round trip: their relative
\* difference is below 5 * 2^-Precision.
WithinTolerance(a, b) ==
  /\ a # NotFinite
  /\ LET e == IF a.e < b.e THEN a.e ELSE b.e
         d == InUnits(a, e) - InUnits(b, e)
     IN (IF d < 0 THEN -d ELSE d) * Pow2(Precision) <= 5 * InUnits(b, e)

\* C16 amended: for positive viewport and resolution, unchanged between the
\* two calls, toLocalPos(toGlobalPos(x, y)) and toGlobalPos(toLocalPos(x, y))
\* equal (x, y) on each axis within floating tolerance.
C16_RoundTripWithinTolerance ==
  RoundTrip => \A axis \in 1..2 : WithinTolerance(point[axis], origin[axis])

\* A round trip through the local position came back off the point it
\* started from.
C16_Witness ==
  /\ trip = <<"toGlobalPos", "toLocalPos">>
  /\ point[1] # origin[1]
  /\ point[2] = origin[2]
  /\ viewport[1] # resolution[1]

\* The step is the container emitting a host event.
DispatchStep == pc = "idle" /\ call'.op = "dispatch"

\* The event gives no layer-relative offset and no touch point to take a
\* position from.
Unresolvable(e) ==
  /\ \/ (e.layerX = Missing /\ e.offsetX = Missing)
     \/ (e.layerY = Missing /\ e.offsetY = Missing)
  /\ e.changedTouches = <<>>

\* The x coordinates the event gives: layerX, offsetX, or a touch's clientX
\* taken relative to the target.
GivenX(e) ==
  ({e.layerX, e.offsetX} \ {Missing})
    \cup {e.changedTouches[k].clientX - TargetRect.left :
            k \in 1..Len(e.changedTouches)}

Above(a, b) ==
  \/ attr[a].zIndex > attr[b].zIndex
  \/ attr[a].zIndex = attr[b].zIndex /\ attr[a].zOrder > attr[b].zOrder

\* The step invokes dispatchEvent on a layer; Invoked is that layer.
Invokes == Len(delivered') > Len(delivered)
Invoked == delivered'[Len(delivered')]

C18_RemovedReceiveNothing ==
  [][Invokes
       => /\ Registered(IdOf[Invoked])
          /\ Bound(IdOf[Invoked]) = Invoked]_vars

\* C20: for one host event every layer has its dispatchEvent invoked at most
\* once, whatever delegateEvent calls were made after construction.
C20_AtMostOnce ==
  [][Invokes
       => /\ \A k \in 1..Len(received) : received[k] # Invoked
          /\ \A k \in 1..Len(delivered) : delivered[k] # Invoked]_vars

\* The step registers a layer: an appendLayer call that returns its layer,
\* or a layer call for an id the map answers nothing for.
Registers ==
  \/ call'.op = "appendLayer" /\ call'.out \in Instances
  \/ call'.op = "layer" /\ call'.pre = Undefined

\* C19: the insertion counter never decreases; it advances by one on every
\* step that registers a layer and stays on every other step; the layer
\* registered is stamped with a value no layer was stamped with before and
\* greater than all of those; no two registered layers share a stamp.
C19_InsertionStamps ==
  [][/\ zOrder' >= zOrder
     /\ IF Registers
          THEN /\ zOrder' = zOrder + 1
               /\ attr'[call'.out].zOrder \notin issued
               /\ \A s \in issued : attr'[call'.out].zOrder > s
               /\ issued' = issued \cup {attr'[call'.out].zOrder}
          ELSE zOrder' = zOrder /\ issued' = issued
     /\ \A a \in RegisteredLayers', b \in RegisteredLayers' :
          a # b => attr'[a].zOrder # attr'[b].zOrder]_vars

\* A layer was registered after another had been removed: three stamps were
\* issued, two layers are registered, and the new layer holds the newest.
C19_Witness ==
  /\ call.op = "appendLayer"
  /\ call.out \in Instances
  /\ Cardinality(issued) = 3
  /\ Len(layerMap) = 2
  /\ attr[call.out].zOrder = 2
  /\ zOrder = 3

====
